---- MODULE Spec2Model ----
(***************************************************************************)
(* A model of web-monitor.py: the WebMonitor object (its persisted set of  *)
(* seen matches, the keyword matcher, the notification step) and the poll  *)
(* loop of start_monitoring with its consecutive-error backoff.            *)
(*                                                                         *)
(* A Python str is modelled as a sequence of one-character strings, so     *)
(* that lower(), strip(), split() and the `in` substring test are computed *)
(* character by character as Python computes them.                         *)
(***************************************************************************)
EXTENDS Naturals, Sequences, FiniteSets, Bags, TLC

VARIABLES
    pc,                  \* where the process is: see the actions below
    search_strings,      \* self.search_strings (validated list of terms)
    seen_matches,        \* self.seen_matches (in-memory set of fingerprints)
    file,                \* what self.seen_matches_file holds on disk
    consecutive_errors,  \* the local of start_monitoring
    content,             \* the local `content` / the argument html_content (None between iterations)
    new_matches,         \* the list check_for_keywords returned (empty between iterations)
    seen_before,         \* history: seen_matches when the last call of check_for_keywords began
    saved,               \* history: how the last call of save_seen_matches ended ("none": no call)
    file_before,         \* history: the record when the last call of load_seen_matches began
    before,              \* history: consecutive_errors when the current iteration began
    sent,                \* history: the argument of every send attempt of the current iteration
    notified,            \* history: bag of the fingerprints of all lines returned so far in this run
    lastIter,            \* history: the last completed iteration, see EndIteration
    run,                 \* history: the failed iterations right before lastIter (the last five at most)
    env,                 \* the environment variables the process was started with
    tally                \* history: the sends and sleeps of the whole run, see TallySleep

vars == <<pc, search_strings, seen_matches, file, consecutive_errors, content,
          new_matches, seen_before, saved, file_before, before, sent, notified, lastIter, run,
          env, tally>>

----------------------------------------------------------------------------
(* Python str operations, on sequences of characters                       *)

\* None, told apart from every str (a str is a sequence of single characters)
None == <<"None">>

\* str.lower() of one character (the alphabet of the model is a, b, A, B, space, newline)
LowerChar(c) == IF c = "A" THEN "a" ELSE IF c = "B" THEN "b" ELSE c

\* str.lower()
Lower(s) == [i \in DOMAIN s |-> LowerChar(s[i])]

\* str.isspace() of one character
IsSpace(c) == c \in {" ", "\n"}

\* A str of any characters, and a list of them
Str == Seq(STRING)
StrList == Seq(Str)

\* The recursive definitions below are functions, so that an argument is
\* evaluated once, as Python evaluates it.

\* str.lstrip(), str.rstrip(), str.strip(): leading and trailing whitespace removed
LStrip[s \in Str] == IF s # <<>> /\ IsSpace(Head(s)) THEN LStrip[Tail(s)] ELSE s

RStrip[s \in Str] ==
    IF s # <<>> /\ IsSpace(s[Len(s)]) THEN RStrip[SubSeq(s, 1, Len(s) - 1)] ELSE s

Strip(s) == RStrip[LStrip[s]]

\* s.split('\n'), cur being the piece under way: always at least one piece
SplitLines[s \in Str, cur \in Str] ==
    IF s = <<>> THEN <<cur>>
    ELSE IF Head(s) = "\n" THEN <<cur>> \o SplitLines[Tail(s), <<>>]
    ELSE SplitLines[Tail(s), Append(cur, Head(s))]

\* s.split(), cur being the word under way: the maximal runs of characters that
\* are not whitespace
SplitWs[s \in Str, cur \in Str] ==
    IF s = <<>> THEN (IF cur = <<>> THEN <<>> ELSE <<cur>>)
    ELSE IF IsSpace(Head(s))
         THEN (IF cur = <<>> THEN <<>> ELSE <<cur>>) \o SplitWs[Tail(s), <<>>]
         ELSE SplitWs[Tail(s), Append(cur, Head(s))]

\* sep.join(parts)
Join[parts \in StrList, sep \in Str] ==
    IF parts = <<>> THEN <<>>
    ELSE IF Len(parts) = 1 THEN parts[1]
    ELSE parts[1] \o sep \o Join[Tail(parts), sep]

\* needle in hay
Contains(hay, needle) ==
    \E i \in 1..(Len(hay) + 1) :
        /\ i + Len(needle) - 1 <= Len(hay)
        /\ SubSeq(hay, i, i + Len(needle) - 1) = needle

\* [line.strip() for line in ls if line.strip()]
NonEmptyStripped[ls \in StrList] ==
    IF ls = <<>> THEN <<>>
    ELSE (IF Strip(Head(ls)) # <<>> THEN <<Strip(Head(ls))>> ELSE <<>>)
         \o NonEmptyStripped[Tail(ls)]

----------------------------------------------------------------------------
(* The configuration: validate_and_set_config and its validators           *)

\* terms.split(','), cur being the item under way: always at least one item
SplitComma[s \in Str, cur \in Str] ==
    IF s = <<>> THEN <<cur>>
    ELSE IF Head(s) = "," THEN <<cur>> \o SplitComma[Tail(s), <<>>]
    ELSE SplitComma[Tail(s), Append(cur, Head(s))]

\* [term.strip() for term in items]
StripEach[items \in StrList] ==
    IF items = <<>> THEN <<>> ELSE <<Strip(Head(items))>> \o StripEach[Tail(items)]

\* (mutant) validate_search_terms without the test of the terms' length
ValidateTermsNoLength(terms) ==
    IF terms = None \/ terms = <<>> THEN [error |-> TRUE, terms |-> <<>>]
    ELSE LET terms_list == StripEach[SplitComma[terms, <<>>]]
         IN  IF terms_list = <<>> THEN [error |-> TRUE, terms |-> <<>>]
             ELSE [error |-> FALSE, terms |-> terms_list]

\* validate_search_terms(terms): error when ConfigError is raised, else the list
\* returned (terms is None when SEARCH_STRINGS is not set)
validate_search_terms(terms) ==
    IF terms = None \/ terms = <<>> THEN [error |-> TRUE, terms |-> <<>>]
    ELSE LET terms_list == StripEach[SplitComma[terms, <<>>]]
         IN  IF terms_list = <<>> THEN [error |-> TRUE, terms |-> <<>>]
             ELSE IF \E k \in DOMAIN terms_list : Len(terms_list[k]) < 2
                  THEN [error |-> TRUE, terms |-> <<>>]
                  ELSE [error |-> FALSE, terms |-> terms_list]

\* The value of a decimal digit
DigitValue(c) ==
    CASE c = "0" -> 0 [] c = "1" -> 1 [] c = "2" -> 2 [] c = "3" -> 3 [] c = "4" -> 4
      [] c = "5" -> 5 [] c = "6" -> 6 [] c = "7" -> 7 [] c = "8" -> 8 [] c = "9" -> 9

IsDigit(c) == c \in {"0", "1", "2", "3", "4", "5", "6", "7", "8", "9"}

\* int(s) of a str of digits and letters: ok is FALSE when int raises ValueError
ParseDigits[s \in Str] ==
    IF s = <<>> THEN 0 ELSE 10 * ParseDigits[SubSeq(s, 1, Len(s) - 1)] + DigitValue(s[Len(s)])

ParseInt(s) ==
    IF s # <<>> /\ \A i \in DOMAIN s : IsDigit(s[i])
    THEN [ok |-> TRUE, val |-> ParseDigits[s]]
    ELSE [ok |-> FALSE, val |-> 0]

\* validate_url(url): TRUE when ConfigError is raised. A URL is modelled by what
\* the checks make of it: not set, without scheme or host, not answering the HEAD
\* request, or fine.
validate_url(url) == url \in {"missing", "no_scheme", "unreachable"}

\* validate_interval(interval): TRUE when ConfigError is raised
validate_interval(interval) ==
    LET n == ParseInt(interval)
    IN  IF ~n.ok THEN TRUE
        ELSE n.val < 60 \/ n.val > 86400

\* validate_email_config(config): TRUE when ConfigError is raised. An address or
\* the password is not set ("missing"), an address does not match email_pattern
\* ("malformed"), or it is fine; smtp_port is the str of SMTP_PORT.
validate_email_config(config) ==
    \/ config.sender_email = "missing"
    \/ config.sender_password = "missing"
    \/ config.recipient_email = "missing"
    \/ config.smtp_port = <<>>
    \/ config.sender_email = "malformed"
    \/ config.recipient_email = "malformed"
    \/ LET port == ParseInt(config.smtp_port)
       IN  IF ~port.ok THEN TRUE ELSE port.val < 1 \/ port.val > 65535

\* (mutant) validate_and_set_config without the email settings' validation
ValidateSkipsEmail(e) ==
    LET t == validate_search_terms(e.terms)
    IN  IF validate_url(e.url) \/ t.error \/ validate_interval(e.interval)
        THEN [error |-> TRUE, search_strings |-> <<>>]
        ELSE [error |-> FALSE, search_strings |-> t.terms]

\* validate_and_set_config(): the URL, the terms, the interval and the email
\* settings are validated in this order and the first ConfigError ends it
validate_and_set_config(e) ==
    LET t == validate_search_terms(e.terms)
    IN  IF validate_url(e.url) \/ t.error \/ validate_interval(e.interval)
           \/ validate_email_config(e.email)
        THEN [error |-> TRUE, search_strings |-> <<>>]
        ELSE [error |-> FALSE, search_strings |-> t.terms]

\* The environment of a run that monitors for "ab": CHECK_INTERVAL and SMTP_PORT
\* at their defaults
DefaultEnv ==
    [url |-> "ok",
     terms |-> <<"a", "b">>,
     interval |-> <<"3", "0", "0">>,
     email |-> [sender_email |-> "ok", sender_password |-> "ok",
                recipient_email |-> "ok", smtp_port |-> <<"5", "8", "7">>]]

----------------------------------------------------------------------------
(* The persisted record (MatchStore)                                       *)

\* The record at seen_matches_file is absent (NoFile), cannot be read or parsed
\* (Garbage: open, json.load or set() raises), or holds a JSON list of strings,
\* modelled as the bag of its items (a list may repeat an item; its order is
\* lost by set() on loading).
NoFile == [kind |-> "absent", items |-> EmptyBag]
Garbage == [kind |-> "garbage", items |-> EmptyBag]
JsonList(b) == [kind |-> "list", items |-> b]

\* json.dump(list(self.seen_matches), f): each member once
JsonDumpList(S) == JsonList(SetToBag(S))

\* set(json.load(f))
SetOfJsonLoad(f) == BagToSet(f.items)

\* How a call of save_seen_matches can end: the file is written ("ok"), open()
\* raises and the file is left as it was ("open_failed"), or the write raises after
\* open(.., 'w') truncated the file ("write_failed"). Either exception is logged.
SaveOutcomes == {"ok", "open_failed", "write_failed"}

\* (mutant) save_seen_matches dumping an empty list
SaveEmptyList(seen, f, outcome) ==
    CASE outcome = "ok" -> JsonDumpList({})
      [] outcome = "open_failed" -> f
      [] outcome = "write_failed" -> Garbage

\* save_seen_matches: the file after the call
save_seen_matches(seen, f, outcome) ==
    CASE outcome = "ok" -> JsonDumpList(seen)
      [] outcome = "open_failed" -> f
      [] outcome = "write_failed" -> Garbage

\* The body of the try block of load_seen_matches. mkdir_ok: os.makedirs succeeds
\* (it cannot fail when the file, hence its directory, exists).
LoadTry(f, mkdir_ok, outcome) ==
    IF f = NoFile /\ ~mkdir_ok
    THEN [raised |-> TRUE, seen |-> {}, file |-> f, saved |-> "none"]
    ELSE IF f = NoFile
    THEN [raised |-> FALSE, seen |-> {},
          file |-> save_seen_matches({}, f, outcome), saved |-> outcome]
    ELSE IF f = Garbage
    THEN [raised |-> TRUE, seen |-> {}, file |-> f, saved |-> "none"]
    ELSE [raised |-> FALSE, seen |-> SetOfJsonLoad(f), file |-> f, saved |-> "none"]

\* (mutant) load_seen_matches without its except clause
LoadNoExcept(f, mkdir_ok, outcome) == LoadTry(f, mkdir_ok, outcome)

\* load_seen_matches: `except Exception` logs and sets the empty set
load_seen_matches(f, mkdir_ok, outcome) ==
    LET r == LoadTry(f, mkdir_ok, outcome)
    IN  IF r.raised
        THEN [raised |-> FALSE, seen |-> {}, file |-> r.file, saved |-> r.saved]
        ELSE r

----------------------------------------------------------------------------
(* The keyword matcher                                                     *)

\* A fetched document is modelled by the text BeautifulSoup extracts from it
\* (for a document without markup, the document itself); Malformed is a non-empty
\* document on which the parser raises.
Malformed == <<"Malformed">>

\* (mutant) any() in place of all()
AnyTermIn(line, terms) ==
    \E k \in DOMAIN terms : Contains(Lower(line), Lower(terms[k]))

\* all(word.lower() in line_lower for word in self.search_strings)
AllTermsIn(line, terms) ==
    \A k \in DOMAIN terms : Contains(Lower(line), Lower(terms[k]))

\* normalized_line = ' '.join(line_lower.split())
NormalizedLine(line) == Join[SplitWs[Lower(line), <<>>], <<" ">>]

\* lines = [line.strip() for line in text.split('\n') if line.strip()]
LinesOf(text) == NonEmptyStripped[SplitLines[text, <<>>]]

\* (mutant) the loop without self.seen_matches.add(normalized_line)
RECURSIVE ScanLinesNoAdd(_, _, _, _)
ScanLinesNoAdd(lines, terms, seen, new) ==
    IF lines = <<>> THEN [new |-> new, seen |-> seen]
    ELSE IF AllTermsIn(Head(lines), terms) /\ NormalizedLine(Head(lines)) \notin seen
         THEN ScanLinesNoAdd(Tail(lines), terms, seen, Append(new, Head(lines)))
         ELSE ScanLinesNoAdd(Tail(lines), terms, seen, new)

\* (mutant) the loop keyed on the line as it is, not on its normalized form
RECURSIVE ScanLinesRaw(_, _, _, _)
ScanLinesRaw(lines, terms, seen, new) ==
    IF lines = <<>> THEN [new |-> new, seen |-> seen]
    ELSE IF AllTermsIn(Head(lines), terms) /\ Head(lines) \notin seen
         THEN ScanLinesRaw(Tail(lines), terms, seen \cup {Head(lines)}, Append(new, Head(lines)))
         ELSE ScanLinesRaw(Tail(lines), terms, seen, new)

\* The for loop of check_for_keywords over lines[i..]: the new matching lines and
\* the seen set after it.
RECURSIVE ScanLines(_, _, _, _)
ScanLines(lines, terms, seen, new) ==
    IF lines = <<>> THEN [new |-> new, seen |-> seen]
    ELSE LET line == Head(lines)
             fp == NormalizedLine(line)
         IN  IF AllTermsIn(line, terms) /\ fp \notin seen
             THEN ScanLines(Tail(lines), terms, seen \cup {fp}, Append(new, line))
             ELSE ScanLines(Tail(lines), terms, seen, new)

\* (mutant) check_for_keywords whose except clause also empties the seen set
CheckEmptiesSeenOnError(html, terms, seen) ==
    IF html = None \/ html = <<>> THEN [new |-> <<>>, seen |-> seen, saves |-> FALSE]
    ELSE IF html = Malformed THEN [new |-> <<>>, seen |-> {}, saves |-> FALSE]
    ELSE LET r == ScanLines(LinesOf(html), terms, seen, <<>>)
         IN  [new |-> r.new, seen |-> r.seen, saves |-> r.new # <<>>]

\* (mutant) check_for_keywords without the call of save_seen_matches
CheckWithoutSave(html, terms, seen) ==
    IF html = None \/ html = <<>> THEN [new |-> <<>>, seen |-> seen, saves |-> FALSE]
    ELSE IF html = Malformed THEN [new |-> <<>>, seen |-> seen, saves |-> FALSE]
    ELSE LET r == ScanLines(LinesOf(html), terms, seen, <<>>)
         IN  [new |-> r.new, seen |-> r.seen, saves |-> FALSE]

\* check_for_keywords(html_content): the returned list, the seen set after the call
\* and whether save_seen_matches was called.
check_for_keywords(html, terms, seen) ==
    IF html = None \/ html = <<>> THEN [new |-> <<>>, seen |-> seen, saves |-> FALSE]
    ELSE IF html = Malformed THEN [new |-> <<>>, seen |-> seen, saves |-> FALSE]
    ELSE LET r == ScanLines(LinesOf(html), terms, seen, <<>>)
         IN  [new |-> r.new, seen |-> r.seen, saves |-> r.new # <<>>]

\* The fingerprints of a list of lines, as a bag
FingerprintBag[ls \in StrList] ==
    IF ls = <<>> THEN EmptyBag
    ELSE SetToBag({NormalizedLine(Head(ls))}) (+) FingerprintBag[Tail(ls)]

\* The effect of a call of check_for_keywords(content) on the monitor's state
CallCheckForKeywords(outcome) ==
    \E r \in {check_for_keywords(content, search_strings, seen_matches)} :
        /\ seen_before' = seen_matches
        /\ seen_matches' = r.seen
        /\ new_matches' = r.new
        /\ notified' = notified (+) FingerprintBag[r.new]
        /\ IF r.saves
           THEN /\ file' = save_seen_matches(r.seen, file, outcome)
                /\ saved' = outcome
           ELSE /\ outcome = "ok"
                /\ UNCHANGED <<file, saved>>

----------------------------------------------------------------------------
(* Inputs                                                                  *)

\* The longest page text, in lines
MaxPageLines == 2

\* SEARCH_STRINGS as validate_search_terms returns them: stripped terms of at
\* least two characters: "ab"; "ab,ba"; "BA,ab"; "ab,b  a" (split(',') and strip()
\* leave the blanks inside a term).
Terms ==
    { << <<"a", "b">> >>,
      << <<"a", "b">>, <<"b", "a">> >>,
      << <<"B", "A">>, <<"a", "b">> >>,
      << <<"a", "b">>, <<"b", " ", " ", "a">> >> }

\* Lines of page text: with both of ab and ba in either order, differing in case
\* and spacing only, with one of them only, padded, with blanks inside a term,
\* blank and empty.
Lines ==
    { <<"a", "b", " ", "b", "a">>,
      <<"A", "B", " ", " ", "B", "a">>,
      <<"b", "a", " ", "a", "b">>,
      <<"a", "b">>,
      <<" ", "A", "b", " ">>,
      <<"a", "b", " ", " ", "a">>,
      <<"a", "b", " ", "a">>,
      <<" ", " ">>,
      <<>> }

\* Page texts: one to MaxPageLines lines joined by newlines (the empty text is
\* the page of one empty line)
Pages == { Join[ls, <<"\n">>] : ls \in UNION { [1..k -> Lines] : k \in 1..MaxPageLines } }

\* What the seen set may hold before a call: fingerprints of earlier matches
PriorSeen == { <<"a", "b", " ", "b", "a">>, <<"a", "b">> }

NoIter == [kind |-> "none", before |-> 0, found |-> 0, sends |-> 0, streak |-> 0,
           sleep |-> 0, after |-> 0]

\* lastIter in a specification that keeps no history of the iterations
HistoryOff == [NoIter EXCEPT !.kind = "off"]

\* The history of the sends and sleeps of a run, at its start: the bag of the
\* fingerprints of the lines of all send attempts (mailed), the number of sleeps
\* of check_interval since the last sleep of twice that or since the start
\* (singles, 5 standing for 5 or more), the number of sleeps of twice
\* check_interval (doubles, 2 standing for 2 or more), the fewest single sleeps
\* between two sleeps of twice check_interval (gap, 5 standing for 5 or more or
\* for no two such sleeps), and the length of the last sleep (last, 0 for none).
TallyStart == [kind |-> "on", mailed |-> EmptyBag, singles |-> 0, doubles |-> 0,
               gap |-> 5, last |-> 0]

\* tally in a specification that keeps no such history
TallyOff == [TallyStart EXCEPT !.kind = "off"]

\* SEARCH_STRINGS of a process whose validated terms are the given ones
EnvOfTerms(terms) == [DefaultEnv EXCEPT !.terms = Join[terms, <<",">>]]

----------------------------------------------------------------------------
(* Calls of check_for_keywords on given page texts (SpecMatch)             *)

InitMatch ==
    /\ pc = "ready"
    /\ search_strings \in Terms
    /\ seen_matches \in SUBSET PriorSeen
    /\ file = JsonDumpList(seen_matches)
    /\ content \in Pages \cup {Malformed}
    /\ new_matches = <<>>
    /\ seen_before = seen_matches
    /\ saved = "none"
    /\ file_before = file
    /\ before = 0
    /\ sent = <<>>
    /\ notified = EmptyBag
    /\ consecutive_errors = 0
    /\ lastIter = NoIter
    /\ run = <<>>
    /\ env = EnvOfTerms(search_strings)
    /\ tally = TallyOff

\* check_for_keywords(content), on a page text not checked before
FirstCall ==
    /\ pc = "ready"
    /\ \E o \in SaveOutcomes : CallCheckForKeywords(o)
    /\ pc' = "checked"
    /\ UNCHANGED <<env, tally, search_strings, content, consecutive_errors, file_before, before, sent,
                   lastIter, run>>

\* check_for_keywords(content) again, right after a call on the same text
SecondCall ==
    /\ pc \in {"checked", "rechecked"}
    /\ \E o \in SaveOutcomes : CallCheckForKeywords(o)
    /\ pc' = "rechecked"
    /\ UNCHANGED <<env, tally, search_strings, content, consecutive_errors, file_before, before, sent,
                   lastIter, run>>

\* Another page text (of one line) is handed to the next call
NextPage ==
    /\ pc \in {"checked", "rechecked"}
    /\ content' \in Lines
    /\ pc' = "ready"
    /\ new_matches' = <<>>
    /\ seen_before' = seen_matches
    /\ UNCHANGED <<env, tally, search_strings, seen_matches, file, saved, file_before, before,
                   consecutive_errors, sent, notified, lastIter, run>>

NextMatch == FirstCall \/ SecondCall \/ NextPage

SpecMatch == InitMatch /\ [][NextMatch]_vars

----------------------------------------------------------------------------
(* Properties of check_for_keywords                                        *)

Range(f) == { f[i] : i \in DOMAIN f }

Checked == pc \in {"checked", "rechecked"}

\* The stripped, non-empty lines of the page text of the last call
PageLines == IF content \in {None, Malformed} THEN <<>> ELSE LinesOf(content)

\* The term occurs in the line at some position, letter case aside
OccursIn(term, line) ==
    \E p \in 0..Len(line) :
        /\ p + Len(term) <= Len(line)
        /\ \A o \in 1..Len(term) : LowerChar(line[p + o]) = LowerChar(term[o])

HasEveryTerm(line) == \A k \in DOMAIN search_strings : OccursIn(search_strings[k], line)

\* C2: a second call of check_for_keywords on the same page text right after the
\* first returns no new match, and no call returns a line whose fingerprint was
\* in the seen set before that call.
C2_Idempotence ==
    /\ pc = "rechecked" => new_matches = <<>>
    /\ Checked => \A i \in DOMAIN new_matches :
                      NormalizedLine(new_matches[i]) \notin seen_before

\* C2 happens: the second call on a page whose matching line the first call
\* returned, with a non-empty seen set before the first call.
C2_Witness ==
    /\ pc = "rechecked"
    /\ new_matches = <<>>
    /\ \E j \in DOMAIN PageLines :
           /\ HasEveryTerm(PageLines[j])
           /\ NormalizedLine(PageLines[j]) \in BagToSet(notified)
    /\ seen_matches \ BagToSet(notified) # {}

\* C5: of the matching lines with one lowercase, whitespace-collapsed text at
\* most one is ever returned, over all calls; within one page text it is the
\* first of them in order of appearance.
C5_DedupCaseWhitespace ==
    /\ \A fp \in BagToSet(notified) : CopiesIn(fp, notified) = 1
    /\ Checked =>
         \A i \in DOMAIN new_matches : \A j \in DOMAIN PageLines :
             ( /\ HasEveryTerm(PageLines[j])
               /\ NormalizedLine(PageLines[j]) = NormalizedLine(new_matches[i])
               /\ \A h \in 1..(j - 1) :
                      ~ ( /\ HasEveryTerm(PageLines[h])
                          /\ NormalizedLine(PageLines[h]) = NormalizedLine(new_matches[i]) ) )
             => PageLines[j] = new_matches[i]

\* C5 happens: a page with two different matching lines of one fingerprint, of
\* which the call returned the first only.
C5_Witness ==
    /\ pc = "checked"
    /\ \E i, j \in DOMAIN PageLines :
           /\ i < j
           /\ PageLines[i] # PageLines[j]
           /\ HasEveryTerm(PageLines[i]) /\ HasEveryTerm(PageLines[j])
           /\ NormalizedLine(PageLines[i]) = NormalizedLine(PageLines[j])
           /\ new_matches = <<PageLines[i]>>

\* A returned line holds every term
C6_OnlyIfAll == Checked => \A i \in DOMAIN new_matches : HasEveryTerm(new_matches[i])

\* A line holding every term whose fingerprint was not seen is matched: its
\* fingerprint is now seen and a returned line has it
C6_IfAll ==
    Checked => \A j \in DOMAIN PageLines :
        (HasEveryTerm(PageLines[j]) /\ NormalizedLine(PageLines[j]) \notin seen_before)
        => /\ NormalizedLine(PageLines[j]) \in seen_matches
           /\ \E i \in DOMAIN new_matches :
                  NormalizedLine(new_matches[i]) = NormalizedLine(PageLines[j])

\* C6 as claimed: a line is returned only if it holds every term; a line holding
\* only some of the terms is never returned and its fingerprint is never added
\* to the seen set; a line holding every term is matched if its fingerprint is
\* not yet seen.
C6_AsClaimed ==
    /\ C6_OnlyIfAll
    /\ Checked => \A j \in DOMAIN PageLines :
           ~HasEveryTerm(PageLines[j])
           => /\ PageLines[j] \notin Range(new_matches)
              /\ NormalizedLine(PageLines[j]) \notin (seen_matches \ seen_before)
    /\ C6_IfAll

\* C6 amended: a line is returned only if it holds every term; a line holding
\* only some of the terms is never returned, and the fingerprints a call adds to
\* the seen set are exactly those of the lines it returns; a line holding every
\* term is matched if its fingerprint is not yet seen.
C6_AndSemantics ==
    /\ C6_OnlyIfAll
    /\ Checked => \A j \in DOMAIN PageLines :
           ~HasEveryTerm(PageLines[j]) => PageLines[j] \notin Range(new_matches)
    /\ Checked => seen_matches \ seen_before
                    = { NormalizedLine(new_matches[i]) : i \in DOMAIN new_matches }
    /\ C6_IfAll

\* C6 happens: with two terms, a page with a line holding one of them and a line
\* holding both, of which the call returned the second only.
C6_Witness ==
    /\ pc = "checked"
    /\ Len(search_strings) = 2
    /\ \E i, j \in DOMAIN PageLines :
           /\ OccursIn(search_strings[1], PageLines[i])
           /\ ~OccursIn(search_strings[2], PageLines[i])
           /\ HasEveryTerm(PageLines[j])
           /\ new_matches = <<PageLines[j]>>

----------------------------------------------------------------------------
(* Saving and loading the record (SpecStore)                               *)

\* The record a process may find at startup: none, an unreadable one, and lists
\* of fingerprints, one of them with an item twice
StartFiles ==
    {NoFile, Garbage}
    \cup { JsonDumpList(S) : S \in SUBSET PriorSeen }
    \cup { JsonList(SetToBag(PriorSeen) (+) SetToBag(PriorSeen)) }

InitStore ==
    /\ pc = "memory"
    /\ search_strings \in Terms
    /\ seen_matches \in SUBSET PriorSeen
    /\ file \in StartFiles
    /\ content = None
    /\ new_matches = <<>>
    /\ seen_before = seen_matches
    /\ saved = "none"
    /\ file_before = file
    /\ before = 0
    /\ sent = <<>>
    /\ notified = EmptyBag
    /\ consecutive_errors = 0
    /\ lastIter = NoIter
    /\ run = <<>>
    /\ env = EnvOfTerms(search_strings)
    /\ tally = TallyOff

\* save_seen_matches() by a process whose seen set is seen_matches
SaveSeenMatches ==
    /\ pc \in {"memory", "loaded", "reloaded"}
    /\ \E o \in SaveOutcomes :
           /\ file' = save_seen_matches(seen_matches, file, o)
           /\ saved' = o
    /\ seen_before' = seen_matches
    /\ pc' = "saved"
    /\ UNCHANGED <<env, tally, search_strings, seen_matches, content, new_matches, file_before,
                   before, sent, notified, consecutive_errors, lastIter, run>>

\* load_seen_matches() by a fresh process (WebMonitor.__init__), whose seen set is
\* what the call assigns; "reloaded" when it follows a save that succeeded
FreshLoad ==
    /\ pc \in {"memory", "saved", "loaded", "reloaded"}
    /\ \E mkdir_ok \in BOOLEAN, o \in SaveOutcomes :
           LET r == load_seen_matches(file, mkdir_ok, o)
           IN  /\ seen_matches' = r.seen
               /\ file' = r.file
               /\ saved' = r.saved
               /\ pc' = IF r.raised THEN "raised"
                        ELSE IF pc = "saved" /\ saved = "ok" THEN "reloaded"
                        ELSE "loaded"
    /\ file_before' = file
    /\ UNCHANGED <<env, tally, search_strings, content, new_matches, seen_before, before, sent,
                   notified, consecutive_errors, lastIter, run>>

NextStore == SaveSeenMatches \/ FreshLoad

SpecStore == InitStore /\ [][NextStore]_vars

Loaded == pc \in {"loaded", "reloaded", "raised"}

----------------------------------------------------------------------------
(* The process: WebMonitor() and start_monitoring() (Spec)                 *)

\* CHECK_INTERVAL, at its default
check_interval == 300

\* The largest value the model lets consecutive_errors reach through unexpected
\* exceptions, which increment it without a reset
MaxErrors == 7

\* The monitor of the process searches for "ab"
LoopTerms == { << <<"a", "b">> >> }

\* response.text, what the monitored URL serves: the empty document, a document
\* the parser raises on, and the page texts "ba" (no match), "ab ba" (one match)
\* and "AB  Ba\nab" (two matches, the first with the fingerprint of "ab ba")
LoopPages ==
    { <<>>,
      Malformed,
      <<"b", "a">>,
      <<"a", "b", " ", "b", "a">>,
      <<"A", "B", " ", " ", "B", "a", "\n", "a", "b">> }

\* The record the process may find at startup
LoopStartFiles == {NoFile, Garbage, JsonDumpList({<<"b", "a", " ", "a", "b">>})}

\* Iterations that count as failed: no content fetched, or the send failed
FailedKinds == {"no_content", "send_failed"}

\* The process starts, its configuration validated
Start ==
    /\ pc = "init"
    /\ search_strings \in LoopTerms
    /\ seen_matches = {}
    /\ file \in LoopStartFiles
    /\ content = None
    /\ new_matches = <<>>
    /\ seen_before = {}
    /\ saved = "none"
    /\ file_before = file
    /\ before = 0
    /\ sent = <<>>
    /\ notified = EmptyBag
    /\ consecutive_errors = 0
    /\ run = <<>>
    /\ env = EnvOfTerms(search_strings)

Init == Start /\ lastIter = NoIter /\ tally = TallyOff

InitFair == Start /\ lastIter = HistoryOff /\ tally = TallyOff

\* The sleeps and sends of the run are recorded, the iterations are not
InitTally == Start /\ lastIter = HistoryOff /\ tally = TallyStart

\* The last n items of a sequence
LastN(q, n) == IF Len(q) <= n THEN q ELSE SubSeq(q, Len(q) - n + 1, Len(q))

\* time.sleep(sleep), recorded in the tally
TallySleep(t, sleep) ==
    IF t.kind = "off" THEN t
    ELSE IF sleep = check_interval
    THEN [t EXCEPT !.singles = IF @ < 5 THEN @ + 1 ELSE 5, !.last = sleep]
    ELSE [t EXCEPT !.gap = IF t.doubles > 0 /\ t.singles < @ THEN t.singles ELSE @,
                   !.singles = 0,
                   !.doubles = IF @ < 2 THEN @ + 1 ELSE 2,
                   !.last = sleep]

\* The fingerprints of the lines of a sequence of send attempts, as a bag
AttemptsBag[attempts \in Seq(StrList)] ==
    IF attempts = <<>> THEN EmptyBag
    ELSE FingerprintBag[Head(attempts)] (+) AttemptsBag[Tail(attempts)]

\* The send attempts recorded in the tally
TallySends(t, attempts) ==
    IF t.kind = "off" THEN t ELSE [t EXCEPT !.mailed = @ (+) AttemptsBag[attempts]]

\* An iteration ends with a sleep and the locals of the loop body are dead. The
\* iteration becomes lastIter: its kind, consecutive_errors when it began
\* (before), the number of new matches (found) and of send attempts (sends),
\* consecutive_errors when the sleep was chosen (streak), the sleep, and
\* consecutive_errors after the sleep (after). run is the failed iterations
\* right before it, the last five at most. A specification that starts with
\* lastIter = HistoryOff keeps no history of the iterations.
EndIteration(kind, began, streak, sleep, after) ==
    /\ IF lastIter = HistoryOff
       THEN UNCHANGED <<lastIter, run>>
       ELSE /\ lastIter' = [kind |-> kind, before |-> began, found |-> Len(new_matches),
                            sends |-> Len(sent), streak |-> streak, sleep |-> sleep,
                            after |-> after]
            /\ run' = IF lastIter.kind \in FailedKinds
                      THEN LastN(Append(run, lastIter), 5)
                      ELSE <<>>
    /\ tally' = TallySleep(tally, sleep)
    /\ content' = None
    /\ new_matches' = <<>>
    /\ sent' = <<>>
    /\ seen_before' = seen_matches
    /\ saved' = "none"

\* WebMonitor.__init__ after the configuration is validated: load_seen_matches(),
\* then start_monitoring() up to the loop
LoadSeenMatches ==
    /\ pc = "init"
    /\ \E mkdir_ok \in BOOLEAN, o \in SaveOutcomes :
           LET r == load_seen_matches(file, mkdir_ok, o)
           IN  /\ seen_matches' = r.seen
               /\ file' = r.file
               /\ saved' = r.saved
               /\ pc' = IF r.raised THEN "crashed" ELSE "fetch"
    /\ file_before' = file
    /\ consecutive_errors' = 0
    /\ UNCHANGED <<env, tally, search_strings, content, new_matches, seen_before, before, sent,
                   notified, lastIter, run>>

\* content = self.fetch_page_content(); if content: ... else: consecutive_errors += 1
\* (fetch_page_content returns None on a timeout or a request error)
FetchPageContent ==
    /\ pc = "fetch"
    /\ content' \in {None} \cup LoopPages
    /\ before' = consecutive_errors
    /\ IF content' = None \/ content' = <<>>
       THEN /\ consecutive_errors' = consecutive_errors + 1
            /\ pc' = "backoff"
       ELSE /\ consecutive_errors' = consecutive_errors
            /\ pc' = "check"
    /\ UNCHANGED <<env, tally, search_strings, seen_matches, file, new_matches, seen_before, saved,
                   file_before, sent, notified, lastIter, run>>

\* found, new_matches = self.check_for_keywords(content); if new_matches: ... else: ...
CheckForKeywords ==
    /\ pc = "check"
    /\ \E o \in SaveOutcomes : CallCheckForKeywords(o)
    /\ pc' = IF new_matches' # <<>> THEN "found" ELSE "clean"
    /\ UNCHANGED <<env, tally, search_strings, content, consecutive_errors, file_before, before,
                   sent, lastIter, run>>

\* (mutant) a failed send is tried once more
SendAgainOnFailure(lines, ok) == IF ok THEN <<lines>> ELSE <<lines, lines>>

\* The send attempts of one call of send_email_notification(matching_lines)
SendAttempts(lines, ok) == <<lines>>

\* print("Found ..."); if self.send_email_notification(new_matches): consecutive_errors = 0
\* else: consecutive_errors += 1  (send_email_notification returns False on any error)
SendEmailNotification ==
    /\ pc = "found"
    /\ \E ok \in BOOLEAN :
           /\ sent' = sent \o SendAttempts(new_matches, ok)
           /\ tally' = TallySends(tally, SendAttempts(new_matches, ok))
           /\ consecutive_errors' = IF ok THEN 0 ELSE consecutive_errors + 1
    /\ pc' = "backoff"
    /\ UNCHANGED <<env, search_strings, seen_matches, file, content, new_matches, seen_before,
                   saved, file_before, before, notified, lastIter, run>>

\* print("."); consecutive_errors = 0
CleanCheck ==
    /\ pc = "clean"
    /\ consecutive_errors' = 0
    /\ pc' = "backoff"
    /\ UNCHANGED <<env, tally, search_strings, seen_matches, file, content, new_matches, seen_before,
                   saved, file_before, before, sent, notified, lastIter, run>>

\* (mutants) the threshold off by one, either way
TooManyErrorsFrom5(n) == n >= 5
TooManyErrorsAbove6(n) == n > 6

\* if consecutive_errors > 5
TooManyErrors(n) == n > 5

\* The kind of the iteration that reaches the backoff decision
KindAtBackoff ==
    IF sent # <<>> THEN (IF consecutive_errors = 0 THEN "sent" ELSE "send_failed")
    ELSE IF content = None \/ content = <<>> THEN "no_content"
    ELSE "clean"

\* if consecutive_errors > 5: time.sleep(check_interval * 2); consecutive_errors = 0
\* else: time.sleep(check_interval)
Backoff ==
    /\ pc = "backoff"
    /\ IF TooManyErrors(consecutive_errors)
       THEN /\ consecutive_errors' = 0
            /\ EndIteration(KindAtBackoff, before, consecutive_errors,
                            check_interval * 2, 0)
       ELSE /\ consecutive_errors' = consecutive_errors
            /\ EndIteration(KindAtBackoff, before, consecutive_errors,
                            check_interval, consecutive_errors)
    /\ pc' = "fetch"
    /\ UNCHANGED <<env, search_strings, seen_matches, file, file_before, before, notified>>

\* (mutant) the loop without its `except Exception` clause
ExceptionPropagates == "crashed"

\* Where an exception raised in the loop body takes control: the except clause
\* of the loop, which goes on to the next iteration
ExceptionHandled == "fetch"

\* (mutant) the except clause with the backoff decision of the try block
ExceptClauseWithBackoff(n) ==
    IF n + 1 > 5 THEN [streak |-> n + 1, sleep |-> check_interval * 2, after |-> 0]
    ELSE [streak |-> n + 1, sleep |-> check_interval, after |-> n + 1]

\* except Exception: consecutive_errors += 1; time.sleep(self.check_interval),
\* entered with consecutive_errors = n: the value the sleep is entered with, the
\* sleep, the value after it
ExceptClause(n) == [streak |-> n + 1, sleep |-> check_interval, after |-> n + 1]

\* An exception other than a request error raised by fetch_page_content or by a
\* print of the loop body: except Exception: consecutive_errors += 1;
\* time.sleep(check_interval)
UnexpectedException ==
    /\ pc \in {"fetch", "found", "clean"}
    /\ consecutive_errors < MaxErrors
    /\ before' = IF pc = "fetch" THEN consecutive_errors ELSE before
    /\ \E x \in {ExceptClause(consecutive_errors)} :
           /\ consecutive_errors' = x.after
           /\ EndIteration("exception", before', x.streak, x.sleep, x.after)
    /\ pc' = ExceptionHandled
    /\ UNCHANGED <<env, search_strings, seen_matches, file, file_before, notified>>

\* except KeyboardInterrupt: the interrupt ends the loop wherever it is
KeyboardInterrupt ==
    /\ pc \in {"fetch", "check", "found", "clean", "backoff"}
    /\ pc' = "stopped"
    /\ UNCHANGED <<env, tally, search_strings, seen_matches, file, consecutive_errors, content,
                   new_matches, seen_before, saved, file_before, before, sent, notified,
                   lastIter, run>>

\* One step of the loop body
LoopStep ==
    \/ FetchPageContent
    \/ CheckForKeywords
    \/ SendEmailNotification
    \/ CleanCheck
    \/ Backoff
    \/ UnexpectedException

Next == LoadSeenMatches \/ LoopStep \/ KeyboardInterrupt

Spec == Init /\ [][Next]_vars

\* The process keeps running: a step of the loop body that can be taken is taken
\* (the fetch and the send time out, the sleep ends)
FairSpec == InitFair /\ [][Next]_vars /\ WF_vars(LoopStep)

\* The same process, with the sends and the sleeps of the run recorded
SpecTally == InitTally /\ [][Next]_vars

----------------------------------------------------------------------------
(* The process from main(): WebMonitor() and start_monitoring() (SpecMain)  *)

\* SEARCH_STRINGS: not set, empty, separators and blanks only, with an empty
\* item, with a term of one character, and lists of terms of two characters and
\* more, padded and with blanks inside
RawTerms ==
    { None,
      <<>>,
      <<",">>,
      <<" ">>,
      <<" ", ",", " ">>,
      <<"a">>,
      <<"a", "b", ",">>,
      <<",", "a", "b">>,
      <<"a", "b", ",", ",", "b", "a">>,
      <<"a", "b", ",", " ", "a", " ">>,
      <<"a", "b">>,
      <<"a", "b", ",", "b", "a">>,
      <<" ", "a", "b", " ", ",", "b", " ", " ", "a">> }

\* CHECK_INTERVAL: the default, below and above the range, not a number, empty
RawIntervals ==
    { <<"3", "0", "0">>, <<"5", "9">>, <<"8", "6", "4", "0", "1">>, <<"5", "m">>, <<>> }

\* The email settings: fine, or with one of them not set, malformed or out of range
EmailConfigs ==
    { DefaultEnv.email,
      [DefaultEnv.email EXCEPT !.sender_email = "missing"],
      [DefaultEnv.email EXCEPT !.sender_password = "missing"],
      [DefaultEnv.email EXCEPT !.recipient_email = "malformed"],
      [DefaultEnv.email EXCEPT !.smtp_port = <<"0">>],
      [DefaultEnv.email EXCEPT !.smtp_port = <<"6", "5", "5", "3", "6">>],
      [DefaultEnv.email EXCEPT !.smtp_port = <<"t", "l", "s">>] }

\* The environments a process is started with: the default one with one setting
\* replaced, and one with every setting invalid
Envs ==
    { [DefaultEnv EXCEPT !.terms = t] : t \in RawTerms }
    \cup { [DefaultEnv EXCEPT !.url = u] : u \in {"missing", "no_scheme", "unreachable"} }
    \cup { [DefaultEnv EXCEPT !.interval = i] : i \in RawIntervals }
    \cup { [DefaultEnv EXCEPT !.email = c] : c \in EmailConfigs }
    \cup { [url |-> "missing", terms |-> None, interval |-> <<"5", "9">>,
            email |-> [DefaultEnv.email EXCEPT !.sender_email = "missing"]] }

\* main() is entered
InitMain ==
    /\ pc = "main"
    /\ env \in Envs
    /\ search_strings = <<>>
    /\ seen_matches = {}
    /\ file \in LoopStartFiles
    /\ content = None
    /\ new_matches = <<>>
    /\ seen_before = {}
    /\ saved = "none"
    /\ file_before = file
    /\ before = 0
    /\ sent = <<>>
    /\ notified = EmptyBag
    /\ consecutive_errors = 0
    /\ run = <<>>
    /\ lastIter = HistoryOff
    /\ tally = TallyOff

\* WebMonitor.__init__: self.setup_logging(), in which os.makedirs or the opening
\* of the log file may raise; main() reports that as an unexpected error
SetupLogging ==
    /\ pc = "main"
    /\ pc' \in {"validate", "unexpected_error"}
    /\ UNCHANGED <<env, tally, search_strings, seen_matches, file, consecutive_errors,
                   content, new_matches, seen_before, saved, file_before, before, sent,
                   notified, lastIter, run>>

\* WebMonitor.__init__: self.validate_and_set_config(); main() reports a
\* ConfigError as a configuration error and returns
ValidateAndSetConfig ==
    /\ pc = "validate"
    /\ \E r \in {validate_and_set_config(env)} :
           /\ search_strings' = r.search_strings
           /\ pc' = IF r.error THEN "config_error" ELSE "init"
    /\ UNCHANGED <<env, tally, seen_matches, file, consecutive_errors, content,
                   new_matches, seen_before, saved, file_before, before, sent, notified,
                   lastIter, run>>

NextMain == SetupLogging \/ ValidateAndSetConfig \/ Next

SpecMain == InitMain /\ [][NextMain]_vars

----------------------------------------------------------------------------
(* Properties of the startup                                               *)

\* The process has not got past its startup
AtStartup == pc \in {"main", "validate", "config_error", "unexpected_error"}

\* No poll iteration has been performed or begun: nothing fetched, checked or sent
NoIterationYet ==
    /\ pc \notin {"check", "found", "clean", "backoff"}
    /\ content = None
    /\ new_matches = <<>>
    /\ sent = <<>>
    /\ notified = EmptyBag
    /\ consecutive_errors = 0

\* SEARCH_STRINGS is set and not empty, and each of its items (the stretch
\* between two commas, or between a comma and an end) holds two characters that
\* are not whitespace, or more with anything between the first and the last
TermsValid(raw) ==
    /\ raw # None
    /\ raw # <<>>
    /\ \A i \in 0..Len(raw) : \A j \in 1..(Len(raw) + 1) :
           ( /\ i < j
             /\ i = 0 \/ raw[i] = ","
             /\ j = Len(raw) + 1 \/ raw[j] = ","
             /\ \A k \in (i + 1)..(j - 1) : raw[k] # "," )
           => \E p, q \in (i + 1)..(j - 1) : p < q /\ ~IsSpace(raw[p]) /\ ~IsSpace(raw[q])

\* CHECK_INTERVAL is a number from 60 to 86400
IntervalValid(raw) == ParseInt(raw).ok /\ ParseInt(raw).val \in 60..86400

\* The addresses and the password are set, the addresses well-formed, and
\* SMTP_PORT is a number from 1 to 65535
EmailValid(c) ==
    /\ c.sender_email = "ok" /\ c.sender_password = "ok" /\ c.recipient_email = "ok"
    /\ ParseInt(c.smtp_port).ok /\ ParseInt(c.smtp_port).val \in 1..65535

\* The URL, the search terms, the interval and the email settings are all valid
AllValid(e) ==
    e.url = "ok" /\ TermsValid(e.terms) /\ IntervalValid(e.interval) /\ EmailValid(e.email)

\* C11 as claimed: the loop is entered only with a URL, terms, interval and email
\* settings that are all valid; when one is invalid the process ends with a
\* configuration error and no poll iteration.
C11_AsClaimed ==
    /\ ~AtStartup => AllValid(env)
    /\ ~AllValid(env) => (pc \in {"main", "validate", "config_error"} /\ NoIterationYet)

\* C11 amended: the same, the process ending with a configuration error or,
\* when setting up the logging failed before the validation, with the report of
\* an unexpected error.
C11_ValidatedBeforeLoop ==
    /\ ~AtStartup => AllValid(env)
    /\ ~AllValid(env) => (AtStartup /\ NoIterationYet)
    /\ pc = "config_error" => ~AllValid(env)

\* C11 happens: the URL, the terms and the interval are valid, the email
\* settings, validated last, are not, and the process has ended with a
\* configuration error.
C11_Witness ==
    /\ pc = "config_error"
    /\ env.url = "ok" /\ TermsValid(env.terms) /\ IntervalValid(env.interval)
    /\ ~EmailValid(env.email)
    /\ NoIterationYet

\* C12: validate_search_terms raises ConfigError or returns a list that is not
\* empty, of trimmed terms of two characters at least; it raises when
\* SEARCH_STRINGS is not set, empty, separators or whitespace only, or holds an
\* empty item; the matcher is never run with an empty list of terms.
C12_TermsValidated ==
    /\ pc \notin {"main", "validate"} /\ pc # "unexpected_error" /\ ~TermsValid(env.terms)
         => pc = "config_error"
    /\ ~AtStartup =>
         /\ search_strings # <<>>
         /\ \A k \in DOMAIN search_strings :
                /\ Len(search_strings[k]) >= 2
                /\ ~IsSpace(search_strings[k][1])
                /\ ~IsSpace(search_strings[k][Len(search_strings[k])])
         /\ Len(search_strings) = 1 + Cardinality({i \in DOMAIN env.terms : env.terms[i] = ","})

\* C12 happens: SEARCH_STRINGS with a term and an empty item is rejected.
C12_Witness ==
    /\ pc = "config_error"
    /\ env = [DefaultEnv EXCEPT !.terms = <<"a", "b", ",">>]

----------------------------------------------------------------------------
(* Properties of the poll loop                                             *)

InIteration == pc \in {"check", "found", "clean", "backoff"}

\* C1: six failed iterations in a row, the first begun with consecutive_errors
\* = 0, sleep check_interval five times and 2 x check_interval the sixth time,
\* after which consecutive_errors is zero.
C1_SixFailures ==
    (lastIter.kind \in FailedKinds /\ Len(run) = 5 /\ run[1].before = 0)
    => /\ \A i \in 1..5 : run[i].sleep = check_interval
       /\ lastIter.sleep = 2 * check_interval
       /\ lastIter.after = 0

\* C1 happens: six failed iterations from zero, fetch and send failures among
\* them, the sixth with the double sleep, and the loop back at the fetch.
C1_Witness ==
    /\ pc = "fetch"
    /\ lastIter.kind = "no_content"
    /\ Len(run) = 5
    /\ run[1].before = 0
    /\ \E i \in 1..5 : run[i].kind = "send_failed"
    /\ lastIter.sleep = 2 * check_interval
    /\ consecutive_errors = 0

\* The extended sleep is chosen exactly at a streak above 5
C3_Threshold ==
    lastIter.kind \notin {"none", "exception"}
    => (lastIter.sleep = 2 * check_interval <=> lastIter.streak > 5)

\* C3 as claimed: five iterations in a row without content, then one that
\* fetches and finds no new match: that one resets consecutive_errors to zero
\* and none of the six sleeps the double length; a streak of exactly 5 never
\* triggers the extended sleep, only one above 5.
C3_AsClaimed ==
    /\ ( /\ lastIter.kind = "clean"
         /\ Len(run) = 5
         /\ \A i \in 1..5 : run[i].kind = "no_content" )
       => /\ lastIter.after = 0
          /\ lastIter.sleep = check_interval
          /\ \A i \in 1..5 : run[i].sleep = check_interval
    /\ C3_Threshold

\* C3 amended: the same, for five iterations of which the first began with
\* consecutive_errors = 0.
C3_FiveThenClean ==
    /\ ( /\ lastIter.kind = "clean"
         /\ Len(run) = 5
         /\ \A i \in 1..5 : run[i].kind = "no_content"
         /\ run[1].before = 0 )
       => /\ lastIter.after = 0
          /\ lastIter.streak = 0
          /\ lastIter.sleep = check_interval
          /\ \A i \in 1..5 : run[i].sleep = check_interval
    /\ C3_Threshold

\* C3 happens: five fetches without content from zero, the fifth at a streak
\* of 5 with the plain sleep, then a clean iteration.
C3_Witness ==
    /\ lastIter.kind = "clean"
    /\ Len(run) = 5
    /\ \A i \in 1..5 : run[i].kind = "no_content"
    /\ run[1].before = 0
    /\ run[5].streak = 5
    /\ run[5].sleep = check_interval
    /\ consecutive_errors = 0

\* C4: the loop ends only by the interrupt, whatever fails in an iteration, and
\* an iteration under way is followed by the next one (unless the interrupt
\* ends the loop).
C4_OnlyInterruptStops ==
    /\ [][(pc' \in {"stopped", "crashed"} /\ pc' # pc) => KeyboardInterrupt]_vars
    /\ (InIteration ~> (pc \in {"fetch", "stopped"}))

\* C4 happens: the loop is at the next fetch with a streak above 5, which
\* takes five failed iterations and then one ended by an exception, and with
\* fingerprints in memory whose save failed in the write.
C4_Witness ==
    /\ pc = "fetch"
    /\ consecutive_errors > 5
    /\ seen_matches # {}
    /\ file = Garbage

\* C9: once loaded, the seen set only grows.
C9_SeenOnlyGrows == [][pc # "init" => seen_matches \subseteq seen_matches']_vars

\* C9 happens: the set loaded from a record has grown by two fingerprints and an
\* iteration has since ended in an exception.
C9_Witness ==
    /\ lastIter.kind = "exception"
    /\ file_before # NoFile
    /\ Cardinality(seen_matches \ SetOfJsonLoad(file_before)) = 2

\* At most one send per iteration, of the new matches of the iteration in order
C10_OneSend ==
    /\ Len(sent) <= 1
    /\ sent # <<>> => (new_matches # <<>> /\ sent = <<new_matches>>)
    /\ lastIter.sends <= 1
    /\ lastIter.sends = 1 => lastIter.found > 0

C13_CleanResets ==
    (pc = "backoff" /\ content # None /\ new_matches = <<>>) => consecutive_errors = 0

\* C14: every runtime error of an iteration is caught, and the iteration in which
\* the fetch failed, the send failed, the parse of the page failed or the write
\* of the record failed reaches its backoff decision with consecutive_errors
\* incremented.
C14_ErrorsCounted ==
    /\ pc # "crashed"
    /\ pc = "backoff" =>
         /\ content = None => consecutive_errors = before + 1
         /\ KindAtBackoff = "send_failed" => consecutive_errors = before + 1
         /\ content = Malformed => consecutive_errors = before + 1
         /\ saved \in {"open_failed", "write_failed"} => consecutive_errors = before + 1

\* The fingerprints the persisted record holds (none when there is no record or
\* it cannot be read)
RecordFingerprints == IF file.kind = "list" THEN SetOfJsonLoad(file) ELSE {}

\* The loop is running
InLoop == pc \in {"fetch", "check", "found", "clean", "backoff"}

\* check_for_keywords has returned in the iteration under way
CheckedInIteration ==
    pc \in {"found", "clean"} \/ (pc = "backoff" /\ content # None /\ content # <<>>)

\* C15 as claimed: whenever the loop reaches its sleep step and whenever a send
\* is attempted, the record holds exactly the fingerprints of the seen set.
C15_AsClaimed ==
    (pc = "backoff" \/ sent # <<>>) => seen_matches = RecordFingerprints

\* C15 amended: a call of check_for_keywords that adds fingerprints calls
\* save_seen_matches before it returns, hence before the send; when that write
\* succeeded, the record holds exactly the fingerprints of the seen set when the
\* send is attempted and at the sleep step; and a record that holds exactly the
\* seen set keeps doing so until a write fails.
C15_SavedAfterAddition ==
    /\ []( CheckedInIteration =>
             /\ seen_matches # seen_before => (new_matches # <<>> /\ saved \in SaveOutcomes)
             /\ (new_matches # <<>> /\ saved = "ok") => seen_matches = RecordFingerprints )
    /\ [][ (InLoop /\ seen_matches = RecordFingerprints)
            => \/ seen_matches' = RecordFingerprints'
               \/ saved' \in {"open_failed", "write_failed"} ]_vars

\* C15 happens: the process found an unreadable record, later added two
\* fingerprints and saved them, attempted the send and is at its sleep step.
C15_Witness ==
    /\ pc = "backoff"
    /\ file_before = Garbage
    /\ Len(new_matches) = 2
    /\ sent # <<>>
    /\ saved = "ok"
    /\ seen_matches = RecordFingerprints

\* C17: the interrupt takes effect at a suspension point only, so that when the
\* loop has stopped every fingerprint of the seen set is in the record and the
\* new matches of the interrupted iteration, if any, have had their send
\* attempt.
C17_CancelAtSuspension ==
    pc = "stopped" =>
        /\ seen_matches \subseteq RecordFingerprints
        /\ new_matches # <<>> => sent # <<>>

\* C18: an iteration ended by an unexpected exception leaves consecutive_errors
\* one above what the iteration began with and sleeps check_interval, whatever
\* that value is: no double sleep and no reset.
C18_ExceptionIteration ==
    lastIter.kind = "exception" =>
        /\ lastIter.streak = lastIter.before + 1
        /\ lastIter.sleep = check_interval
        /\ lastIter.after = lastIter.before + 1
        /\ pc = "fetch" => consecutive_errors = lastIter.before + 1

\* C18 happens: an iteration begun with consecutive_errors = 6 ended in an
\* exception, slept check_interval, and the next fetch is due with 7.
C18_Witness ==
    /\ pc = "fetch"
    /\ lastIter.kind = "exception"
    /\ lastIter.before = 6
    /\ lastIter.sleep = check_interval
    /\ consecutive_errors = 7

\* C19: over a run, a fingerprint is in the lines of one send attempt at most,
\* failed attempts included; the fingerprints of the lines of a send attempt are
\* in the seen set, whose save was called, before the attempt.
C19_AtMostOnce ==
    /\ \A fp \in BagToSet(tally.mailed) : CopiesIn(fp, tally.mailed) = 1
    /\ BagToSet(tally.mailed) \subseteq seen_matches
    /\ pc = "found" =>
          /\ \A i \in DOMAIN new_matches :
                 /\ NormalizedLine(new_matches[i]) \in seen_matches
                 /\ NormalizedLine(new_matches[i]) \notin BagToSet(tally.mailed)
          /\ saved \in SaveOutcomes

\* C19 happens: the one iteration so far sent the line of its page and the send
\* failed; the same page has been fetched again and the check has returned
\* nothing.
C19_Witness ==
    /\ pc = "clean"
    /\ content = <<"a", "b", " ", "b", "a">>
    /\ BagToSet(tally.mailed) = {NormalizedLine(content)}
    /\ tally.singles = 1
    /\ tally.doubles = 0
    /\ consecutive_errors = 1

\* C20: every sleep lasts check_interval or twice that, and between two sleeps
\* of twice check_interval there are five sleeps of check_interval at least
\* (at a fetch, consecutive_errors is no more than the sleeps of check_interval
\* since the last sleep of twice that).
C20_FlatBackoff ==
    /\ tally.last \in {0, check_interval, 2 * check_interval}
    /\ tally.gap >= 5
    /\ (pc = "fetch" /\ tally.singles < 5) => consecutive_errors <= tally.singles

\* C20 happens: the loop has slept twice check_interval for the second time
\* and is at the next fetch.
C20_Witness ==
    /\ pc = "fetch"
    /\ tally.doubles = 2
    /\ tally.last = 2 * check_interval
    /\ consecutive_errors = 0

----------------------------------------------------------------------------
(* save_seen_matches step by step, with a reader of the record (SpecSave)  *)

\* open(self.seen_matches_file, 'w'): it raises and the exception is logged, or
\* it leaves the file empty, which no reader can parse
OpenForWrite ==
    /\ pc = "memory"
    /\ file_before' = file
    /\ seen_before' = seen_matches
    /\ \/ /\ file' = Garbage
          /\ pc' = "opened"
          /\ UNCHANGED saved
       \/ /\ file' = save_seen_matches(seen_matches, file, "open_failed")
          /\ saved' = "open_failed"
          /\ pc' = "saved"
    /\ UNCHANGED <<env, tally, search_strings, seen_matches, content, new_matches,
                   before, sent, notified, consecutive_errors, lastIter, run>>

\* json.dump(list(self.seen_matches), f) and the end of the with block: the list
\* is written, or the write raises and the exception is logged
JsonDump ==
    /\ pc = "opened"
    /\ \E o \in {"ok", "write_failed"} :
           /\ file' = save_seen_matches(seen_matches, file, o)
           /\ saved' = o
    /\ pc' = "saved"
    /\ UNCHANGED <<env, tally, search_strings, seen_matches, content, new_matches,
                   seen_before, file_before, before, sent, notified, consecutive_errors,
                   lastIter, run>>

\* The process is interrupted (KeyboardInterrupt is no Exception) or stops while
\* the file is open for writing
InterruptedInSave ==
    /\ pc = "opened"
    /\ pc' = "killed"
    /\ UNCHANGED <<env, tally, search_strings, seen_matches, file, content, new_matches,
                   seen_before, saved, file_before, before, sent, notified,
                   consecutive_errors, lastIter, run>>

\* A reader of the record, at the same time as the writer or after it: another
\* process calls load_seen_matches, and seen_matches is from now on what it got
ReaderLoad ==
    /\ pc \in {"opened", "saved", "killed"}
    /\ \E mkdir_ok \in BOOLEAN, o \in SaveOutcomes :
           LET r == load_seen_matches(file, mkdir_ok, o)
           IN  /\ seen_matches' = r.seen
               /\ file' = r.file
               /\ saved' = r.saved
    /\ pc' = "read"
    /\ UNCHANGED <<env, tally, search_strings, content, new_matches, seen_before,
                   file_before, before, sent, notified, consecutive_errors, lastIter, run>>

NextSave == OpenForWrite \/ JsonDump \/ InterruptedInSave \/ ReaderLoad

SpecSave == InitStore /\ [][NextSave]_vars

\* C16: writing the record is atomic: a reader of a record that held a list
\* before the save, reading at the same time as the writer or after the writer
\* stopped or was interrupted, gets the complete previous set or the complete
\* new set, never the set of an empty, truncated or partly written record.
C16_AtomicWrite ==
    (pc = "read" /\ file_before.kind = "list")
    => seen_matches \in {SetOfJsonLoad(file_before), seen_before}

====
